---- MODULE Spec2Model ----
(***************************************************************************)
(* A model of the split-step Fourier propagator of the quantum simulator:  *)
(* src/src/solver/SimulationEngine.{h,cpp} and src/src/core/Wavefunction.h *)
(*                                                                         *)
(* Numbers.  Grid sizes are the program's ints.  dt and the simulation     *)
(* time are integer multiples of one time quantum, so t + dt is exact.     *)
(* dx = lx / nx is kept as the pair <<lx, nx>> (nx = 0 gives an infinite   *)
(* spacing in the program, no exception).  A k-grid entry 2*pi*m/L is kept *)
(* as its integer mode m.                                                  *)
(*                                                                         *)
(* The wavefunction contents are symbolic: what was written into the       *)
(* buffer last (zeros, the normalized Gaussian of a wavepacket, or the     *)
(* unspecified contents FFTW_MEASURE planning leaves behind) and the list  *)
(* of operators applied to it since.                                       *)
(***************************************************************************)
EXTENDS Integers, Sequences, FiniteSets, TLC

\* ------------------------------------------------------------------ bounds
MaxDim == 2
MaxDt == 1
MaxSteps == 2
MaxReconfig == 1
MaxRegistrations == 2
MaxParams == 4
MaxWrites == 2
MaxFrameSteps == 1

\* -------------------------------------------------------- program constants
DefaultDomain == 20

\* ------------------------------------------------------------------ inputs
GridSizes == {0 - 1, 0} \cup (1 .. MaxDim)
TimeSteps == {0 - 1, 0} \cup (1 .. MaxDt)
Observers == {"O1", "O2"}

WpA == [x0 |-> 0, y0 |-> 0, sigmaX |-> 1, sigmaY |-> 1, kx |-> 5, ky |-> 0]
WpB == [x0 |-> 1, y0 |-> 0, sigmaX |-> 2, sigmaY |-> 1, kx |-> 0, ky |-> 0]
Wavepackets == {WpA, WpB}

PotentialConfigs ==
    { [type |-> "FreeSpace", parameters |-> << >>],
      [type |-> "SquareBarrier", parameters |-> <<10, 1, 0, 0>>] }

\* struct PhysicsConfig (the fields the engine reads)
PhysicsConfig ==
    [nx : GridSizes, ny : GridSizes, dt : TimeSteps,
     potential : PotentialConfigs, wavepacket : Wavepackets]

\* ------------------------------------------------------------ exceptions
NoExc == "none"
LengthError == "std::length_error"
RuntimeError == "std::runtime_error"
CallbackExc == "exception thrown by the step completion callback"

\* ------------------------------------------------------------ potential
\* Potential::create: string-dispatched factory, unknown names give FreeSpace,
\* missing parameters take defaults.
PotentialDefaults(type) ==
    IF type = "SquareBarrier" THEN <<1, 1, 0, 0>>
    ELSE IF type = "HarmonicOscillator" THEN <<1>>
    ELSE << >>

\* a factory that ignores the parameters it is given
PotentialCreate_DefaultsOnly(type, parameters) ==
    LET known == type \in {"FreeSpace", "SquareBarrier", "HarmonicOscillator"}
        t == IF known THEN type ELSE "FreeSpace"
    IN  [type |-> t, parameters |-> PotentialDefaults(t)]

PotentialCreate(type, parameters) ==
    LET known == type \in {"FreeSpace", "SquareBarrier", "HarmonicOscillator"}
        t == IF known THEN type ELSE "FreeSpace"
        d == PotentialDefaults(t)
    IN  [type |-> t,
         parameters |-> [n \in 1 .. Len(d) |->
                            IF n <= Len(parameters) THEN parameters[n] ELSE d[n]]]

NullPotential == [type |-> "NULL", parameters |-> << >>]

Variants == {"FreeSpace", "SquareBarrier", "HarmonicOscillator"}

Magnitude(z) == IF z < 0 THEN 0 - z ELSE z

\* twice V(x, y), so that the oscillator's 1/2 w^2 (x^2 + y^2) stays an integer:
\* FreeSpace 0; SquareBarrier(H, W, xc, yc) H inside the square of side W
\* centred on (xc, yc) and 0 outside; HarmonicOscillator(w)
TwiceValue(p, x, y) ==
    IF p.type = "SquareBarrier"
    THEN IF /\ 2 * Magnitude(x - p.parameters[3]) <= p.parameters[2]
            /\ 2 * Magnitude(y - p.parameters[4]) <= p.parameters[2]
         THEN 2 * p.parameters[1]
         ELSE 0
    ELSE IF p.type = "HarmonicOscillator"
    THEN p.parameters[1] * p.parameters[1] * (x * x + y * y)
    ELSE 0

\* ---------------------------------------------------------- wavefunction
NoWavepacket == [x0 |-> 0, y0 |-> 0, sigmaX |-> 0, sigmaY |-> 0, kx |-> 0, ky |-> 0]

\* std::vector<T>(n, v) with an int n converted to size_t: a negative n is a
\* huge count and the vector constructor throws std::length_error.
VectorCtorThrows(n) == n < 0

\* Wavefunction(nx, ny): m_data(nx * ny, 0).  buf is the identity of the
\* vector's storage, 0 for the null data() of an empty vector.
WavefunctionCtor(nx, ny, freshBuf) ==
    [m_nx |-> nx, m_ny |-> ny, size |-> nx * ny,
     buf |-> IF nx * ny = 0 THEN 0 ELSE freshBuf,
     kind |-> "zero", wp |-> NoWavepacket, ops |-> << >>]

NoWavefunction ==
    [m_nx |-> 0, m_ny |-> 0, size |-> 0, buf |-> 0,
     kind |-> "none", wp |-> NoWavepacket, ops |-> << >>]

\* an operator applied in place to every sample (i, j), 0 <= i < m_nx,
\* 0 <= j < m_ny, of the field; the loops visit nothing for an empty range
WfApply(w, op) ==
    IF w.m_nx > 0 /\ w.m_ny > 0 THEN [w EXCEPT !.ops = Append(@, op)] ELSE w

\* the total probability S that normalize computes is 0 or NaN: every sample
\* is 0, or a sample is NaN, or the loops visit no sample
ZeroNorm(w) ==
    w.kind \in {"zero", "nan"} \/ ~(w.m_nx > 0 /\ w.m_ny > 0)

\* Wavefunction::normalize: scales every sample by 1/sqrt(S); S is not tested.
\* With S = 0 the factor is inf and 0 * inf = NaN; with S = NaN it is NaN.
WfNormalize(w) ==
    IF w.m_nx > 0 /\ w.m_ny > 0 /\ ZeroNorm(w)
    THEN [w EXCEPT !.kind = "nan", !.ops = << >>]
    ELSE WfApply(w, <<"normalize">>)

\* Wavefunction::initializeGaussian: overwrites every sample with the
\* Gaussian envelope times the momentum phase, then normalizes.
WfInitializeGaussian(w, wp) ==
    IF w.m_nx > 0 /\ w.m_ny > 0
    THEN WfNormalize([w EXCEPT !.kind = "gauss", !.wp = wp, !.ops = << >>])
    ELSE WfNormalize(w)

\* the contents of a field that holds the normalized Gaussian of wp
IsNormalizedGaussian(w, wp) ==
    w.kind = "gauss" /\ w.wp = wp /\ w.ops = << <<"normalize">> >>

\* the samples of a field, without its shape and storage
Contents(w) == [kind |-> w.kind, wp |-> w.wp, ops |-> w.ops]
NoContents == [kind |-> "none", wp |-> NoWavepacket, ops |-> << >>]

\* what FFTW_MEASURE planning may leave in the array it plans on
WfClobbered(w) == [w EXCEPT !.kind = "unspecified", !.wp = NoWavepacket, !.ops = << >>]

\* std::vector<float> density(n), every entry 0.0f
ZeroDensity(n) == [k \in 1 .. n |-> "0.0f"]
NoDensity == << >>

\* density[idx] = |m_data[src]|^2: an entry of a density vector is named by
\* the index of the sample whose squared modulus it holds
RECURSIVE DensityWrites(_, _)
DensityWrites(d, writes) ==
    IF writes = << >> THEN d
    ELSE DensityWrites([d EXCEPT ![Head(writes)[1] + 1] = Head(writes)[2]],
                       Tail(writes))

\* the visits of  for (i = 0; i < nx; ++i) for (j = 0; j < ny; ++j), in order
RECURSIVE LoopNest(_, _, _, _)
LoopNest(i, j, nx, ny) ==
    IF i >= nx THEN << >>
    ELSE IF j >= ny THEN LoopNest(i + 1, 0, nx, ny)
    ELSE <<<<i, j>>>> \o LoopNest(i, j + 1, nx, ny)

\* m_data(nx * ny, std::complex<double>(0.0, 0.0))
ZeroSamples(n) == [k \in 1 .. n |-> 0]
NoWrite == [via |-> "none", at |-> << >>, v |-> 0]
NoSamples == [m_data |-> << >>, write |-> NoWrite, writes |-> 0]

\* an accessor that lays the samples out column by column
SampleIndex_ColumnMajor(w, i, j) == j * w.m_nx + i

\* Wavefunction::operator()(i, j): the sample m_data[i * m_ny + j]
SampleIndex(w, i, j) == i * w.m_ny + j

\* Wavefunction::getProbabilityDensity
WfGetProbabilityDensity(w) ==
    LET v == LoopNest(0, 0, w.m_nx, w.m_ny)
    IN  DensityWrites(ZeroDensity(w.m_nx * w.m_ny),
           [n \in 1 .. Len(v) |->
               <<v[n][1] * w.m_ny + v[n][2], SampleIndex(w, v[n][1], v[n][2])>>])

\* ------------------------------------------------------------- FFT plans
\* fftw_plan: id 0 is the null handle; a plan is bound to the storage and the
\* shape it was planned for.
NullPlan == [id |-> 0, buf |-> 0, nx |-> 0, ny |-> 0, dir |-> "none"]

\* fftw_plan_dft_2d(nx, ny, in, out, dir, FFTW_MEASURE): NULL when a dimension
\* is not positive or when the library refuses (ok = FALSE).
FftwPlanDft2d(nx, ny, buf, dir, ok, id) ==
    IF nx > 0 /\ ny > 0 /\ ok
    THEN [id |-> id, buf |-> buf, nx |-> nx, ny |-> ny, dir |-> dir]
    ELSE NullPlan

\* ------------------------------------------------------------ k-space grid
\* a grid that wraps to the negative modes one index early
KMode_WrapEarly(n, N) == IF n < N \div 2 THEN n ELSE n - N

\* integer mode of index n (0-based) on an axis of length N, FFT order
KMode(n, N) == IF n <= N \div 2 THEN n ELSE n - N

\* std::vector<double>(n): n zeros
ZeroVector(n) == [i \in 1 .. n |-> 0]

\* std::vector::resize(n): keeps the common prefix, pads with zeros
VectorResize(v, n) == [i \in 1 .. n |-> IF i <= Len(v) THEN v[i] ELSE 0]

\* m_lx / m_nx in double arithmetic, kept as numerator and denominator
Spacing(l, n) == <<l, n>>

\* ------------------------------------------------------------------ state
VARIABLES
    eng,         \* the SimulationEngine object: its data members
    wf,          \* a Wavefunction object built on its own, as the unit tests do
    heap,        \* FFTW plans and wavefunction buffers that are allocated
    phase,       \* "unbuilt", "alive", "failed" (the constructor threw),
                 \* "crashed" (fftw_execute on a null plan: the process is
                 \* gone, and its objects and heap with it), "destroyed",
                 \* "field" (only the Wavefunction object exists)
    lastCall,    \* the operation called last
    lastDims,    \* the grid <<nx, ny>> handed to the last constructor or
                 \* updateConfig call
    err,         \* the exception that call surfaced to its caller
    stages,      \* the stages the last call of step() completed, in order
    notes,       \* the notifications the last call of step() issued, in order
    tEntry,      \* m_currentTime when the last call of step() was entered
    nSteps,      \* calls of step() since the time counter was last zeroed
    clean,       \* the constructor, reset() or an updateConfig that returned
                 \* zeroed the time counter, and no updateConfig failed since
    registered,  \* observers passed to setStepCompletionCallback, in order
    reconfigs,   \* calls of updateConfig so far
    initial,     \* the contents of the field when the constructor or
                 \* updateConfig, whichever was called last, returned
    out,         \* the vector the last call returned, if it returned one
    samples,     \* the samples of a field on its own (the contents of m_data),
                 \* with the last write made to them
    app,         \* the application: the UI manager's state, the visualization's
                 \* size, and what the last frame did
    request      \* a call of the potential factory: its arguments and, once
                 \* it has returned, the potential it returned

vars == <<eng, wf, heap, phase, lastCall, lastDims, err, stages, notes, tEntry,
          nSteps, clean, registered, reconfigs, initial, out, request, samples,
          app>>

NoCallback == "none"

NoEngine ==
    [m_nx |-> 0, m_ny |-> 0, m_lx |-> 0, m_ly |-> 0,
     m_dx |-> <<0, 0>>, m_dy |-> <<0, 0>>, m_dt |-> 0, m_currentTime |-> 0,
     m_wavefunction |-> NoWavefunction, m_potential |-> NullPotential,
     m_wavepacket |-> NoWavepacket,
     m_forwardPlan |-> NullPlan, m_backwardPlan |-> NullPlan,
     m_kx |-> << >>, m_ky |-> << >>,
     m_eventBus |-> FALSE, m_stepCompletionCallback |-> NoCallback]

\* twice: fftw_destroy_plan was handed a plan that does not exist (any more)
EmptyHeap == [plans |-> {}, bufs |-> {}, twice |-> FALSE]

\* the allocator hands out the lowest identity that is not in use
LowestFree(used) ==
    CHOOSE n \in 1 .. (Cardinality(used) + 1) :
        n \notin used /\ \A m \in 1 .. (n - 1) : m \in used

FreshBuf(h) == LowestFree(h.bufs)
FreshPlan(h) == LowestFree({p.id : p \in h.plans})

\* a procedure of the engine maps a run [e, h, exc] to a run: the object, the
\* heap, and the exception that is propagating out of it (NoExc if none)
Run(e, h) == [e |-> e, h |-> h, exc |-> NoExc]
Throw(r, x) == [r EXCEPT !.exc = x]

\* ----------------------------------------------------- engine procedures
\* fftw_destroy_plan(p)
FftwDestroyPlan(h, p) ==
    [h EXCEPT !.plans = @ \ {p}, !.twice = @ \/ p \notin h.plans]

\* a cleanup that forgets the backward plan
cleanupFFTWPlans_ForwardOnly(r) ==
    LET e == r.e
        h1 == IF e.m_forwardPlan # NullPlan
              THEN FftwDestroyPlan(r.h, e.m_forwardPlan) ELSE r.h
    IN  [r EXCEPT !.e = [e EXCEPT !.m_forwardPlan = NullPlan,
                                  !.m_backwardPlan = NullPlan],
                  !.h = h1]

\* a cleanup that destroys the plans and keeps the handles
cleanupFFTWPlans_KeepHandles(r) ==
    LET e == r.e
        h1 == IF e.m_forwardPlan # NullPlan
              THEN FftwDestroyPlan(r.h, e.m_forwardPlan) ELSE r.h
        h2 == IF e.m_backwardPlan # NullPlan
              THEN FftwDestroyPlan(h1, e.m_backwardPlan) ELSE h1
    IN  [r EXCEPT !.h = h2]

\* SimulationEngine::cleanupFFTWPlans
cleanupFFTWPlans(r) ==
    LET e == r.e
        h1 == IF e.m_forwardPlan # NullPlan
              THEN FftwDestroyPlan(r.h, e.m_forwardPlan) ELSE r.h
        h2 == IF e.m_backwardPlan # NullPlan
              THEN FftwDestroyPlan(h1, e.m_backwardPlan) ELSE h1
    IN  [r EXCEPT !.e = [e EXCEPT !.m_forwardPlan = NullPlan,
                                  !.m_backwardPlan = NullPlan],
                  !.h = h2]

\* an initialization that leaves the time counter alone
initializeWavefunction_KeepTime(r) ==
    [r EXCEPT !.e = [r.e EXCEPT
        !.m_wavefunction = WfInitializeGaussian(@, r.e.m_wavepacket)]]

\* SimulationEngine::initializeWavefunction
initializeWavefunction(r) ==
    [r EXCEPT !.e = [r.e EXCEPT
        !.m_wavefunction = WfInitializeGaussian(@, r.e.m_wavepacket),
        !.m_currentTime = 0]]

\* SimulationEngine::initializeFFTWPlans.  fOK, bOK: the library builds the
\* forward / backward plan; clobber: planning overwrites the array.
initializeFFTWPlans(r, fOK, bOK, clobber) ==
    LET e == r.e
        w == e.m_wavefunction
    IN  IF w.buf = 0
        THEN Throw(r, RuntimeError)
        ELSE
          LET fwd == FftwPlanDft2d(e.m_nx, e.m_ny, w.buf, "forward", fOK,
                                   FreshPlan(r.h))
              hf == [r.h EXCEPT !.plans = @ \cup ({fwd} \ {NullPlan})]
              bwd == FftwPlanDft2d(e.m_nx, e.m_ny, w.buf, "backward", bOK,
                                   FreshPlan(hf))
              made == {fwd, bwd} \ {NullPlan}
              e1 == [e EXCEPT
                       !.m_forwardPlan = fwd,
                       !.m_backwardPlan = bwd,
                       !.m_wavefunction =
                           IF clobber /\ made # {} THEN WfClobbered(w) ELSE w]
              h1 == [r.h EXCEPT !.plans = @ \cup made]
          IN  [e |-> e1, h |-> h1,
               exc |-> IF fwd = NullPlan \/ bwd = NullPlan
                       THEN RuntimeError ELSE NoExc]

\* the k-grid loops of the constructor and of updateConfig: they write
\* m_kx[0 .. m_nx-1] and m_ky[0 .. m_ny-1]
FillKGrid(e) ==
    [e EXCEPT
       !.m_kx = [i \in 1 .. Len(@) |->
                   IF i <= e.m_nx THEN KMode(i - 1, e.m_nx) ELSE @[i]],
       !.m_ky = [j \in 1 .. Len(@) |->
                   IF j <= e.m_ny THEN KMode(j - 1, e.m_ny) ELSE @[j]]]

\* SimulationEngine::SimulationEngine(config, eventBus): the run it ends in.
\* An exception leaves no object; the members built so far are destroyed,
\* the destructor body does not run.
ConstructorRun(c, bus, fOK, bOK, clobber) ==
    LET h0 == EmptyHeap
        w0 == WavefunctionCtor(c.nx, c.ny, FreshBuf(h0))
        h1 == [h0 EXCEPT !.bufs = @ \cup ({w0.buf} \ {0})]
        e0 == [m_nx |-> c.nx, m_ny |-> c.ny,
               m_lx |-> DefaultDomain, m_ly |-> DefaultDomain,
               m_dx |-> Spacing(DefaultDomain, c.nx),
               m_dy |-> Spacing(DefaultDomain, c.ny),
               m_dt |-> c.dt, m_currentTime |-> 0,
               m_wavefunction |-> w0,
               m_potential |-> PotentialCreate(c.potential.type,
                                               c.potential.parameters),
               m_wavepacket |-> c.wavepacket,
               m_forwardPlan |-> NullPlan, m_backwardPlan |-> NullPlan,
               m_kx |-> ZeroVector(c.nx), m_ky |-> ZeroVector(c.ny),
               m_eventBus |-> bus, m_stepCompletionCallback |-> NoCallback]
        r1 == initializeWavefunction(Run(e0, h1))
        r2 == initializeFFTWPlans(r1, fOK, bOK, clobber)
        unwound(h) == [h EXCEPT !.bufs = {}]
    IN  IF VectorCtorThrows(c.nx * c.ny)
        THEN Throw(Run(NoEngine, h0), LengthError)
        ELSE IF VectorCtorThrows(c.nx) \/ VectorCtorThrows(c.ny)
        THEN Throw(Run(NoEngine, unwound(h1)), LengthError)
        ELSE IF r2.exc # NoExc
        THEN Throw(Run(NoEngine, unwound(r2.h)), r2.exc)
        ELSE [r2 EXCEPT !.e = FillKGrid(r2.e)]

\* an updateConfig that resizes the k-grid arrays and does not recompute them
UpdateConfigRun_StaleKGrid(e, h, c, fOK, bOK, clobber) ==
    LET r1 == cleanupFFTWPlans(Run(e, h))
        e2 == [r1.e EXCEPT !.m_nx = c.nx, !.m_ny = c.ny, !.m_dt = c.dt,
                           !.m_wavepacket = c.wavepacket,
                           !.m_dx = Spacing(r1.e.m_lx, c.nx),
                           !.m_dy = Spacing(r1.e.m_ly, c.ny)]
        w3 == WavefunctionCtor(c.nx, c.ny, FreshBuf(r1.h))
        h3 == [r1.h EXCEPT
                 !.bufs = (@ \ {e2.m_wavefunction.buf}) \cup ({w3.buf} \ {0})]
        e3 == [e2 EXCEPT !.m_wavefunction = w3,
                         !.m_potential = PotentialCreate(c.potential.type,
                                                         c.potential.parameters)]
        e4 == [e3 EXCEPT !.m_kx = VectorResize(@, c.nx)]
        e5 == [e4 EXCEPT !.m_ky = VectorResize(@, c.ny)]
        r6 == initializeFFTWPlans(Run(e5, h3), fOK, bOK, clobber)
        r7 == initializeWavefunction(r6)
    IN  IF VectorCtorThrows(c.nx * c.ny)
        THEN Throw(Run(e2, r1.h), LengthError)
        ELSE IF VectorCtorThrows(c.nx)
        THEN Throw(Run(e3, h3), LengthError)
        ELSE IF VectorCtorThrows(c.ny)
        THEN Throw(Run(e4, h3), LengthError)
        ELSE IF r6.exc # NoExc
        THEN r6
        ELSE r7

\* an updateConfig that takes the new parameters over and keeps the evolved
\* state
UpdateConfigRun_KeepState(e, h, c, fOK, bOK, clobber) ==
    Run([e EXCEPT !.m_dt = c.dt, !.m_wavepacket = c.wavepacket,
                  !.m_potential = PotentialCreate(c.potential.type,
                                                  c.potential.parameters)], h)

\* SimulationEngine::updateConfig(config): the run it ends in
UpdateConfigRun(e, h, c, fOK, bOK, clobber) ==
    LET r1 == cleanupFFTWPlans(Run(e, h))
        e2 == [r1.e EXCEPT !.m_nx = c.nx, !.m_ny = c.ny, !.m_dt = c.dt,
                           !.m_wavepacket = c.wavepacket,
                           !.m_dx = Spacing(r1.e.m_lx, c.nx),
                           !.m_dy = Spacing(r1.e.m_ly, c.ny)]
        w3 == WavefunctionCtor(c.nx, c.ny, FreshBuf(r1.h))
        h3 == [r1.h EXCEPT
                 !.bufs = (@ \ {e2.m_wavefunction.buf}) \cup ({w3.buf} \ {0})]
        e3 == [e2 EXCEPT !.m_wavefunction = w3,
                         !.m_potential = PotentialCreate(c.potential.type,
                                                         c.potential.parameters)]
        e4 == [e3 EXCEPT !.m_kx = VectorResize(@, c.nx)]
        e5 == [e4 EXCEPT !.m_ky = VectorResize(@, c.ny)]
        r6 == initializeFFTWPlans(Run(e5, h3), fOK, bOK, clobber)
        r7 == initializeWavefunction([r6 EXCEPT !.e = FillKGrid(r6.e)])
    IN  IF VectorCtorThrows(c.nx * c.ny)
        THEN Throw(Run(e2, r1.h), LengthError)
        ELSE IF VectorCtorThrows(c.nx)
        THEN Throw(Run(e3, h3), LengthError)
        ELSE IF VectorCtorThrows(c.ny)
        THEN Throw(Run(e4, h3), LengthError)
        ELSE IF r6.exc # NoExc
        THEN r6
        ELSE r7

\* ---------------------------------------------------------------- step()
\* step() without its second half-step potential multiply
StepProgram_NoSecondHalfV ==
    <<"halfV", "fft", "kinetic", "ifft", "scale", "time", "publish", "callback">>

\* step() publishing before it advances the time counter
StepProgram_PublishBeforeTime ==
    <<"halfV", "fft", "kinetic", "ifft", "scale", "halfV", "publish",
      "time", "callback">>

\* a step whose kinetic operator leaves the inverse transform unscaled
StepProgram_NoRescale ==
    <<"halfV", "fft", "kinetic", "ifft", "halfV", "time", "publish", "callback">>

\* The statements of SimulationEngine::step, in program order, with
\* applyKineticOperator inlined (fft, kinetic, ifft, scale).
StepProgram ==
    <<"halfV", "fft", "kinetic", "ifft", "scale", "halfV", "time",
      "publish", "callback">>

\* a per-sample loop of the engine: for i < m_nx, for j < m_ny
EngineLoop(e, op) ==
    IF e.m_nx > 0 /\ e.m_ny > 0
    THEN [e EXCEPT !.m_wavefunction = [@ EXCEPT !.ops = Append(@, op)]]
    ELSE e

\* fftw_execute(plan): transforms, in place, the array the plan is bound to
FftwExecute(e, plan, op) ==
    IF plan.buf = e.m_wavefunction.buf
    THEN [e EXCEPT !.m_wavefunction = [@ EXCEPT !.ops = Append(@, op)]]
    ELSE e

\* The progress of one call of step(): the object, the stages completed, the
\* notifications issued, a propagating exception, and whether the process
\* died in fftw_execute(NULL), which dereferences the null plan.
StepStart(e) ==
    [e |-> e, stages |-> << >>, notes |-> << >>, exc |-> NoExc, died |-> FALSE]

\* a notification as its receiver sees it: who is told, the time the event
\* carries (the callback is handed nothing and reads the engine's time), the
\* engine's time and the stages completed at that moment
Note(s, who) ==
    [who |-> who, carried |-> s.e.m_currentTime, now |-> s.e.m_currentTime,
     done |-> s.stages]

Completed(s, e, name) == [s EXCEPT !.e = e, !.stages = Append(@, name)]

\* one statement of step()
ExecStage(s, name, throws) ==
    LET e == s.e
    IN  CASE name = "halfV" ->
               \* applyPotentialOperator
               Completed(s, EngineLoop(e, <<"halfV", e.m_potential, e.m_dt>>), name)
          [] name = "fft" ->
               \* fftw_execute(m_forwardPlan)
               IF e.m_forwardPlan = NullPlan
               THEN [s EXCEPT !.died = TRUE]
               ELSE Completed(s, FftwExecute(e, e.m_forwardPlan, <<"fft">>), name)
          [] name = "kinetic" ->
               Completed(s, EngineLoop(e, <<"kinetic", e.m_kx, e.m_ky, e.m_dt>>), name)
          [] name = "ifft" ->
               \* fftw_execute(m_backwardPlan)
               IF e.m_backwardPlan = NullPlan
               THEN [s EXCEPT !.died = TRUE]
               ELSE Completed(s, FftwExecute(e, e.m_backwardPlan, <<"ifft">>), name)
          [] name = "scale" ->
               \* norm_factor = 1.0 / (m_nx * m_ny)
               Completed(s, EngineLoop(e, <<"scale", e.m_nx * e.m_ny>>), name)
          [] name = "time" ->
               Completed(s, [e EXCEPT !.m_currentTime = @ + e.m_dt], name)
          [] name = "publish" ->
               \* if (m_eventBus) publish(SimulationSteppedEvent(m_currentTime, ...))
               [Completed(s, e, name) EXCEPT
                   !.notes = IF e.m_eventBus THEN Append(@, Note(s, "bus")) ELSE @]
          [] name = "callback" ->
               \* if (m_stepCompletionCallback) m_stepCompletionCallback()
               IF e.m_stepCompletionCallback = NoCallback
               THEN Completed(s, e, name)
               ELSE [Completed(s, e, name) EXCEPT
                       !.notes = Append(@, Note(s, e.m_stepCompletionCallback)),
                       !.exc = IF throws THEN CallbackExc ELSE NoExc]

\* the statements from the k-th on, until one throws or the process dies
RECURSIVE ExecFrom(_, _, _, _)
ExecFrom(s, prog, k, throws) ==
    IF k > Len(prog) \/ s.exc # NoExc \/ s.died
    THEN s
    ELSE ExecFrom(ExecStage(s, prog[k], throws), prog, k + 1, throws)

\* SimulationEngine::step
StepRun(e, throws) == ExecFrom(StepStart(e), StepProgram, 1, throws)

\* ------------------------------------------------------------- operations
Alive == phase = "alive"

\* new SimulationEngine(config, eventBus)
Construct(c, bus, fOK, bOK, clobber) ==
    /\ phase = "unbuilt"
    /\ LET r == ConstructorRun(c, bus, fOK, bOK, clobber)
       IN  /\ eng' = r.e
           /\ heap' = r.h
           /\ err' = r.exc
           /\ phase' = IF r.exc = NoExc THEN "alive" ELSE "failed"
           /\ initial' = IF r.exc = NoExc THEN Contents(r.e.m_wavefunction)
                         ELSE NoContents
    /\ lastCall' = "construct"
    /\ UNCHANGED <<request, samples, app>>
    /\ out' = NoDensity
    /\ lastDims' = <<c.nx, c.ny>>
    /\ nSteps' = 0
    /\ clean' = TRUE
    /\ UNCHANGED <<wf, stages, notes, tEntry, registered, reconfigs>>

\* engine.step(); throws: the step completion callback throws.  A call that
\* dies in fftw_execute takes the process with it: what is left to look at is
\* how far the call got.
Step(throws) ==
    /\ Alive
    /\ nSteps < MaxSteps
    /\ LET s == StepRun(eng, throws)
       IN  IF s.died
           THEN /\ phase' = "crashed"
                /\ eng' = NoEngine
                /\ heap' = EmptyHeap
                /\ stages' = s.stages
                /\ notes' = s.notes
                /\ err' = NoExc
                /\ tEntry' = 0
                /\ nSteps' = 0
                /\ clean' = TRUE
                /\ lastDims' = <<0, 0>>
                /\ registered' = << >>
                /\ initial' = NoContents
           ELSE /\ phase' = phase
                /\ eng' = s.e
                /\ heap' = heap
                /\ stages' = s.stages
                /\ notes' = s.notes
                /\ err' = s.exc
                /\ tEntry' = eng.m_currentTime
                /\ nSteps' = nSteps + 1
                /\ UNCHANGED <<clean, lastDims, registered, initial>>
    /\ lastCall' = "step"
    /\ UNCHANGED <<request, samples, app>>
    /\ out' = NoDensity
    /\ UNCHANGED <<wf, reconfigs>>

\* a reset that builds a new field before it initializes it
ResetRun_Reallocate(e, h) ==
    LET w == WavefunctionCtor(e.m_nx, e.m_ny, FreshBuf(h))
        h1 == [h EXCEPT !.bufs = (@ \ {e.m_wavefunction.buf}) \cup ({w.buf} \ {0})]
    IN  initializeWavefunction(Run([e EXCEPT !.m_wavefunction = w], h1))

\* SimulationEngine::reset: initializeWavefunction, then the reset events
ResetRun(e, h) == initializeWavefunction(Run(e, h))

\* engine.reset()
Reset ==
    /\ Alive
    /\ LET r == ResetRun(eng, heap)
       IN  /\ eng' = r.e
           /\ heap' = r.h
           /\ err' = r.exc
    /\ lastCall' = "reset"
    /\ UNCHANGED <<request, samples, app>>
    /\ out' = NoDensity
    /\ tEntry' = 0
    /\ stages' = << >>
    /\ notes' = << >>
    /\ nSteps' = 0
    /\ clean' = TRUE
    /\ UNCHANGED <<wf, phase, lastDims, registered, reconfigs, initial>>

\* engine.updateConfig(config)
UpdateConfig(c, fOK, bOK, clobber) ==
    /\ Alive
    /\ reconfigs < MaxReconfig
    /\ LET r == UpdateConfigRun(eng, heap, c, fOK, bOK, clobber)
       IN  /\ eng' = r.e
           /\ heap' = r.h
           /\ err' = r.exc
           /\ clean' = (r.exc = NoExc)
           /\ initial' = IF r.exc = NoExc THEN Contents(r.e.m_wavefunction)
                         ELSE NoContents
    /\ lastCall' = "updateConfig"
    /\ UNCHANGED <<request, samples, app>>
    /\ out' = NoDensity
    /\ lastDims' = <<c.nx, c.ny>>
    /\ tEntry' = 0
    /\ stages' = << >>
    /\ notes' = << >>
    /\ reconfigs' = reconfigs + 1
    /\ nSteps' = 0
    /\ UNCHANGED <<wf, phase, registered>>

\* a setPotential that also restarts the clock
SetPotentialRun_ResetsTime(e, p) ==
    [e EXCEPT !.m_potential = p, !.m_currentTime = 0]

\* SimulationEngine::setPotential: m_potential = std::move(potential), then
\* the potential-changed event
SetPotentialRun(e, p) == [e EXCEPT !.m_potential = p]

\* engine.setPotential(std::move(p))
SetPotential(p) ==
    /\ Alive
    /\ eng' = SetPotentialRun(eng, p)
    /\ lastCall' = "setPotential"
    /\ UNCHANGED <<request, samples, app>>
    /\ out' = NoDensity
    /\ err' = NoExc
    /\ stages' = << >>
    /\ notes' = << >>
    /\ tEntry' = 0
    /\ UNCHANGED <<wf, heap, phase, lastDims, nSteps, clean, registered,
                   reconfigs, initial>>

\* a registration that keeps the callback registered first
AssignCallback_KeepFirst(e, o) ==
    IF e.m_stepCompletionCallback = NoCallback
    THEN [e EXCEPT !.m_stepCompletionCallback = o]
    ELSE e

\* m_stepCompletionCallback = std::move(callback)
AssignCallback(e, o) == [e EXCEPT !.m_stepCompletionCallback = o]

\* engine.setStepCompletionCallback(o)
SetStepCompletionCallback(o) ==
    /\ Alive
    /\ eng' = AssignCallback(eng, o)
    /\ registered' = Append(registered, o)
    /\ lastCall' = "setStepCompletionCallback"
    /\ UNCHANGED <<request, samples, app>>
    /\ out' = NoDensity
    /\ err' = NoExc
    /\ stages' = << >>
    /\ notes' = << >>
    /\ tEntry' = 0
    /\ UNCHANGED <<wf, heap, phase, lastDims, nSteps, clean, reconfigs, initial>>

\* SimulationEngine::getProbabilityDensity, when the vector is constructed:
\* densityData[j * m_nx + i] = std::norm(m_wavefunction(i, j))
EngineDensity(e) ==
    LET v == LoopNest(0, 0, e.m_nx, e.m_ny)
    IN  DensityWrites(ZeroDensity(e.m_nx * e.m_ny),
           [n \in 1 .. Len(v) |->
               <<v[n][2] * e.m_nx + v[n][1],
                 SampleIndex(e.m_wavefunction, v[n][1], v[n][2])>>])

\* engine.getProbabilityDensity(): std::vector<float>(m_nx * m_ny) throws for
\* a negative count
GetProbabilityDensity ==
    /\ Alive
    /\ IF VectorCtorThrows(eng.m_nx * eng.m_ny)
       THEN out' = NoDensity /\ err' = LengthError
       ELSE out' = EngineDensity(eng) /\ err' = NoExc
    /\ lastCall' = "getProbabilityDensity"
    /\ UNCHANGED <<request, samples, app>>
    /\ stages' = << >>
    /\ notes' = << >>
    /\ tEntry' = 0
    /\ UNCHANGED <<eng, wf, heap, phase, lastDims, nSteps, clean, registered,
                   reconfigs, initial>>

\* engine.shutdown()
Shutdown ==
    /\ Alive
    /\ LET r == cleanupFFTWPlans(Run(eng, heap))
       IN  /\ eng' = r.e
           /\ heap' = r.h
    /\ lastCall' = "shutdown"
    /\ UNCHANGED <<request, samples, app>>
    /\ out' = NoDensity
    /\ err' = NoExc
    /\ stages' = << >>
    /\ notes' = << >>
    /\ tEntry' = 0
    /\ UNCHANGED <<wf, phase, lastDims, nSteps, clean, registered, reconfigs,
                   initial>>

\* SimulationEngine::~SimulationEngine: the body releases the plans, then the
\* members are destroyed and the wavefunction's storage is freed; what stays
\* is the heap
Destroy ==
    /\ Alive
    /\ LET r == cleanupFFTWPlans(Run(eng, heap))
       IN  heap' = [r.h EXCEPT !.bufs = @ \ {eng.m_wavefunction.buf}]
    /\ eng' = NoEngine
    /\ phase' = "destroyed"
    /\ lastCall' = "destroy"
    /\ UNCHANGED <<request, samples, app>>
    /\ out' = NoDensity
    /\ lastDims' = <<0, 0>>
    /\ err' = NoExc
    /\ stages' = << >>
    /\ notes' = << >>
    /\ tEntry' = 0
    /\ nSteps' = 0
    /\ clean' = TRUE
    /\ registered' = << >>
    /\ initial' = NoContents
    /\ UNCHANGED <<wf, reconfigs>>

\* Wavefunction w(nx, ny): the object on its own
NewWavefunction(nx, ny) ==
    /\ phase = "unbuilt"
    /\ IF VectorCtorThrows(nx * ny)
       THEN /\ wf' = NoWavefunction
            /\ err' = LengthError
            /\ phase' = "failed"
            /\ heap' = heap
       ELSE /\ wf' = WavefunctionCtor(nx, ny, FreshBuf(heap))
            /\ err' = NoExc
            /\ phase' = "field"
            /\ heap' = [heap EXCEPT !.bufs = @ \cup ({wf'.buf} \ {0})]
    /\ lastCall' = "newWavefunction"
    /\ UNCHANGED <<request, samples, app>>
    /\ out' = NoDensity
    /\ lastDims' = <<nx, ny>>
    /\ UNCHANGED <<eng, stages, notes, tEntry, nSteps, clean, registered,
                   reconfigs, initial>>

\* w.normalize(lx, ly) on the Wavefunction object
Normalize ==
    /\ phase = "field"
    /\ wf' = WfNormalize(wf)
    /\ lastCall' = "normalize"
    /\ UNCHANGED <<request, samples, app>>
    /\ out' = NoDensity
    /\ err' = NoExc
    /\ UNCHANGED <<eng, heap, phase, lastDims, stages, notes, tEntry, nSteps,
                   clean, registered, reconfigs, initial>>

\* ------------------------------------------------------ the inputs drawn
\* the grids drawn: every positive grid, and every grid with a non-positive
\* dimension whose other dimension is at most 1
Shapes ==
    {g \in GridSizes \X GridSizes :
        (g[1] <= 0 \/ g[2] <= 0) => (g[1] <= 1 /\ g[2] <= 1)}

\* the engine is first built in free space with wavepacket A.  The calls
\* drawn differ from the reference call (the largest grid, the largest time
\* step, an event bus) in at most one of the grid, the time step and the bus.
ConstructCall(g, dt, bus) ==
    [c |-> [nx |-> g[1], ny |-> g[2], dt |-> dt,
            potential |-> [type |-> "FreeSpace", parameters |-> << >>],
            wavepacket |-> WpA],
     bus |-> bus]

ConstructInputs ==
    {ConstructCall(g, MaxDt, TRUE) : g \in Shapes}
       \cup {ConstructCall(<<MaxDim, MaxDim>>, dt, TRUE) : dt \in TimeSteps}
       \cup {ConstructCall(<<MaxDim, MaxDim>>, MaxDt, bus) : bus \in BOOLEAN}

\* it is reconfigured to a barrier with wavepacket B and the largest time
\* step, on any of the grids
ReconfigInputs ==
    {[nx |-> g[1], ny |-> g[2], dt |-> MaxDt,
      potential |-> [type |-> "SquareBarrier", parameters |-> <<10, 1, 0, 0>>],
      wavepacket |-> WpB] : g \in Shapes}

\* what the planner does when it is called: it builds the forward plan (fOK),
\* the backward plan (bOK), and overwrites the array (clobber).  The engine
\* reaches fftw_plan_dft_2d only with a positive grid; for the other grids
\* nothing is drawn.
Planning(c) ==
    IF c.nx > 0 /\ c.ny > 0
    THEN [fOK : BOOLEAN, bOK : BOOLEAN, clobber : BOOLEAN]
    ELSE {[fOK |-> TRUE, bOK |-> TRUE, clobber |-> FALSE]}

Potentials ==
    {PotentialCreate(p.type, p.parameters) : p \in PotentialConfigs}

\* the configuration drawn for a reconfiguration to the grid g
ReconfigOf(g) == CHOOSE c \in ReconfigInputs : <<c.nx, c.ny>> = g

\* the calls of the factory: every type name, with every parameter list of at
\* most MaxParams values in which a width or a frequency is positive
TypeNames == Variants \cup {"NonexistentType", ""}
ParamValues == {-1, 2, 5}
ParamLists == UNION {[1 .. n -> ParamValues] : n \in 0 .. MaxParams}
InRange(name, parameters) ==
    /\ (name = "SquareBarrier" /\ Len(parameters) >= 2) => parameters[2] > 0
    /\ (name = "HarmonicOscillator" /\ Len(parameters) >= 1) => parameters[1] > 0
FactoryCalls ==
    {c \in [name : TypeNames, parameters : ParamLists, potential : {NullPotential}] :
        InRange(c.name, c.parameters)}
NoRequest == [name |-> "", parameters |-> << >>, potential |-> NullPotential]

\* main's configuration and the UI manager's own defaults.  Grid sizes are in
\* units of 256 points, time steps in units of 0.001, barrier values in tenths,
\* wavepacket values in tenths together with how the value is held: exactly,
\* or rounded to the nearest float.
MainN == 1
UiN == 2
MainDt == 10
UiDt == 1
Tenths(n) == <<n, "exact">>
AppWavepacket ==
    [x0 |-> Tenths(0), y0 |-> Tenths(0), sigmaX |-> Tenths(1),
     sigmaY |-> Tenths(1), kx |-> Tenths(50), ky |-> Tenths(0)]
FreeSpaceConfig == [type |-> "FreeSpace", parameters |-> << >>]
BarrierDefaults == [type |-> "SquareBarrier", parameters |-> <<10, 5, 0, 0>>]
MainConfig ==
    [nx |-> MainN, ny |-> MainN, dt |-> MainDt, potential |-> FreeSpaceConfig,
     wavepacket |-> AppWavepacket]
UiConfig ==
    [nx |-> UiN, ny |-> UiN, dt |-> UiDt, potential |-> FreeSpaceConfig,
     wavepacket |-> AppWavepacket]
\* static_cast<float> of a value given in tenths: the multiples of one half
\* are floats, any other value is rounded to the nearest float, which is a
\* different number
ToFloat(v) == IF v[1] % 5 = 0 THEN v ELSE <<v[1], "nearest float">>

\* m_uiState: the float copies of m_config's values
UiState ==
    [dt |-> UiDt, potential |-> FreeSpaceConfig,
     wavepacket |-> [f \in DOMAIN UiConfig.wavepacket |-> ToFloat(UiConfig.wavepacket[f])]]

\* what a frame did: the Apply button clicked, whether Reset was triggered
\* (button or R key), the calls of step(), the UI state in which step() was called
\* ("none": it was not), the size of the vector handed to render (-1: nothing rendered),
\* whether updateConfig returned normally, and the engine as 'Apply Potential
\* Changes' found it
NoBefore == [t |-> 0, buf |-> 0, nx |-> 0, ny |-> 0, wp |-> NoWavepacket]
NoFrame ==
    [apply |-> "none", reset |-> FALSE, steps |-> 0, simAtStep |-> "none",
     handed |-> -1, applied |-> FALSE, before |-> NoBefore]

\* m_config, as far as it is read: every use copies it and overwrites the
\* copy's time step, potential and wavepacket from m_uiState first, so the
\* grid is all that is kept of it
UiGrid == [nx |-> UiConfig.nx, ny |-> UiConfig.ny]

NoApp ==
    [at |-> "off", m_simState |-> "Stopped", m_config |-> UiGrid,
     m_uiState |-> UiState, vis |-> <<0, 0>>, frame |-> NoFrame]

\* the k-th registration registers observer Ok
NextObserver ==
    IF Len(registered) = 0 THEN {"O1"}
    ELSE IF Len(registered) < MaxRegistrations THEN {"O2"}
    ELSE {}

Init ==
    /\ eng = NoEngine
    /\ wf = NoWavefunction
    /\ heap = EmptyHeap
    /\ phase = "unbuilt"
    /\ lastCall = "none"
    /\ lastDims = <<0, 0>>
    /\ err = NoExc
    /\ stages = << >>
    /\ notes = << >>
    /\ tEntry = 0
    /\ nSteps = 0
    /\ clean = TRUE
    /\ registered = << >>
    /\ reconfigs = 0
    /\ initial = NoContents
    /\ out = NoDensity
    /\ request = NoRequest
    /\ samples = NoSamples
    /\ app = NoApp

Next ==
    \/ \E a \in ConstructInputs : \E lib \in Planning(a.c) :
          Construct(a.c, a.bus, lib.fOK, lib.bOK, lib.clobber)
    \/ \E throws \in BOOLEAN : Step(throws)
    \/ Reset
    \/ \E c \in ReconfigInputs : \E lib \in Planning(c) :
          UpdateConfig(c, lib.fOK, lib.bOK, lib.clobber)
    \/ \E p \in Potentials : SetPotential(p)
    \/ \E o \in NextObserver : SetStepCompletionCallback(o)
    \/ Shutdown
    \/ Destroy
    \/ \E g \in Shapes : NewWavefunction(g[1], g[2])
    \/ Normalize
    \/ GetProbabilityDensity

Spec == Init /\ [][Next]_vars

\* ------------------------------------------------------- the field alone
\* the values written
SampleValues == {1, 2}

\* Wavefunction w(nx, ny)
FieldConstruct(nx, ny) ==
    /\ phase = "unbuilt"
    /\ IF VectorCtorThrows(nx * ny)
       THEN /\ wf' = NoWavefunction
            /\ err' = LengthError
            /\ phase' = "failed"
            /\ heap' = heap
            /\ samples' = NoSamples
       ELSE /\ wf' = WavefunctionCtor(nx, ny, FreshBuf(heap))
            /\ err' = NoExc
            /\ phase' = "field"
            /\ heap' = [heap EXCEPT !.bufs = @ \cup ({wf'.buf} \ {0})]
            /\ samples' = [m_data |-> ZeroSamples(nx * ny), write |-> NoWrite,
                           writes |-> 0]
    /\ lastCall' = "newWavefunction"
    /\ lastDims' = <<nx, ny>>
    /\ UNCHANGED <<eng, stages, notes, tEntry, nSteps, clean, registered,
                   reconfigs, initial, out, request, app>>

\* w(i, j) = v, for 0 <= i < nx and 0 <= j < ny
WriteThroughOperator(i, j, v) ==
    /\ phase = "field"
    /\ samples.writes < MaxWrites
    /\ i \in 0 .. wf.m_nx - 1
    /\ j \in 0 .. wf.m_ny - 1
    /\ samples' = [m_data |-> [samples.m_data EXCEPT ![SampleIndex(wf, i, j) + 1] = v],
                   write |-> [via |-> "operator()", at |-> <<i, j>>, v |-> v],
                   writes |-> samples.writes + 1]
    /\ lastCall' = "operator()"
    /\ err' = NoExc
    /\ UNCHANGED <<eng, wf, heap, phase, lastDims, stages, notes, tEntry, nSteps,
                   clean, registered, reconfigs, initial, out, request, app>>

\* w.data()[k] = v, for 0 <= k < nx * ny
WriteThroughData(k, v) ==
    /\ phase = "field"
    /\ samples.writes < MaxWrites
    /\ k \in 0 .. wf.size - 1
    /\ samples' = [m_data |-> [samples.m_data EXCEPT ![k + 1] = v],
                   write |-> [via |-> "data()", at |-> <<k>>, v |-> v],
                   writes |-> samples.writes + 1]
    /\ lastCall' = "data()"
    /\ err' = NoExc
    /\ UNCHANGED <<eng, wf, heap, phase, lastDims, stages, notes, tEntry, nSteps,
                   clean, registered, reconfigs, initial, out, request, app>>

\* w(i, j), read
ReadThroughOperator(i, j) == samples.m_data[SampleIndex(wf, i, j) + 1]

\* w.data()[k], read
ReadThroughData(k) == samples.m_data[k + 1]

NextField ==
    \/ \E g \in Shapes : FieldConstruct(g[1], g[2])
    \/ \E i, j \in 0 .. MaxDim - 1 : \E v \in SampleValues : WriteThroughOperator(i, j, v)
    \/ \E k \in 0 .. MaxDim * MaxDim - 1 : \E v \in SampleValues : WriteThroughData(k, v)

SpecField == Init /\ [][NextField]_vars

\* ----------------------------------------------- the potential factory alone
\* Potential::create(name, parameters)
Create ==
    /\ request.potential = NullPotential
    /\ request' = [request EXCEPT !.potential = PotentialCreate(request.name, request.parameters)]
    /\ err' = NoExc
    /\ lastCall' = "create"
    /\ UNCHANGED <<eng, wf, heap, phase, lastDims, stages, notes, tEntry,
                   nSteps, clean, registered, reconfigs, initial, out, samples,
                   app>>

InitFactory ==
    /\ eng = NoEngine
    /\ wf = NoWavefunction
    /\ heap = EmptyHeap
    /\ phase = "unbuilt"
    /\ lastCall = "none"
    /\ lastDims = <<0, 0>>
    /\ err = NoExc
    /\ stages = << >>
    /\ notes = << >>
    /\ tEntry = 0
    /\ nSteps = 0
    /\ clean = TRUE
    /\ registered = << >>
    /\ reconfigs = 0
    /\ initial = NoContents
    /\ out = NoDensity
    /\ request \in FactoryCalls
    /\ samples = NoSamples
    /\ app = NoApp

NextFactory == Create

SpecFactory == InitFactory /\ [][NextFactory]_vars

\* ------------------------------------------------------- the application
BadWeakPtr == "std::bad_weak_ptr"

\* main: the engine, the visualization and the UI manager are built, then the
\* application controller.  The controller's constructor calls
\* shared_from_this() on its event bus, before any shared_ptr owns the
\* object: std::bad_weak_ptr since C++17 (main's catch, and the components
\* go), undefined before.  thrown: the call throws.  Where it does not, or
\* the controller has no bus, the callbacks are registered and the frame
\* loop starts.
AppStart(thrown, lib) ==
    /\ phase = "unbuilt"
    /\ app.at = "off"
    /\ LET r == ConstructorRun(MainConfig, TRUE, lib.fOK, lib.bOK, lib.clobber)
           gone == cleanupFFTWPlans(r)
       IN  IF r.exc # NoExc
           THEN /\ eng' = NoEngine
                /\ heap' = r.h
                /\ err' = r.exc
                /\ phase' = "failed"
                /\ app' = [app EXCEPT !.at = "exited"]
                /\ initial' = NoContents
           ELSE IF thrown
           THEN /\ eng' = NoEngine
                /\ heap' = [gone.h EXCEPT !.bufs = @ \ {r.e.m_wavefunction.buf}]
                /\ err' = BadWeakPtr
                /\ phase' = "destroyed"
                /\ app' = [app EXCEPT !.at = "exited"]
                /\ initial' = NoContents
           ELSE /\ eng' = AssignCallback(r.e, "main")
                /\ heap' = r.h
                /\ err' = NoExc
                /\ phase' = "alive"
                /\ app' = [app EXCEPT !.at = "loop", !.vis = <<MainConfig.nx, MainConfig.ny>>]
                /\ initial' = Contents(r.e.m_wavefunction)
    /\ lastCall' = "main"
    /\ lastDims' = <<MainConfig.nx, MainConfig.ny>>
    /\ nSteps' = 0
    /\ clean' = TRUE
    /\ out' = NoDensity
    /\ UNCHANGED <<wf, stages, notes, tEntry, registered, reconfigs, request,
                   samples>>

\* a frame that steps whatever the UI state is
ShouldStep_Always(sim, elapsed) == elapsed

\* processFrame: getSimulationState() == Running && simulationTimeDelta >=
\* SIMULATION_TIME
ShouldStep(sim, elapsed) == sim = "Running" /\ elapsed

\* UIManager::processInput: Space toggles, then R stops
AfterKeys(sim, keys) ==
    LET s1 == IF "Space" \in keys
              THEN (IF sim = "Running" THEN "Paused" ELSE "Running")
              ELSE sim
    IN  IF "R" \in keys THEN "Stopped" ELSE s1

\* UIManager::updateConfig(config): the UI state is copied into config
\* (static_cast<double> of a float is that float's value), and config is
\* stored as m_config
UiUpdateConfig(a) ==
    [nx |-> a.m_config.nx, ny |-> a.m_config.ny, dt |-> a.m_uiState.dt,
     potential |-> a.m_uiState.potential, wavepacket |-> a.m_uiState.wavepacket]

\* UIManager::render with one widget activated: the run [e, h, exc] of the
\* engine calls made, and the UI manager after it.  Exceptions of the engine
\* are caught by the handlers.
ClickRun(click, e, h, a, lib, delivers) ==
    LET same == [r |-> Run(e, h), a |-> a, applied |-> FALSE]
        cfg == UiUpdateConfig(a)
    IN  CASE click = "StartPause" ->
               [same EXCEPT !.a.m_simState =
                   IF a.m_simState # "Running" THEN "Running" ELSE "Paused"]
          [] click = "Reset" ->
               [same EXCEPT !.a.m_simState = "Stopped"]
          [] click = "PotentialType" ->
               [same EXCEPT !.a.m_uiState.potential =
                   IF @ = FreeSpaceConfig THEN BarrierDefaults ELSE FreeSpaceConfig]
          [] click = "WaveX0" ->
               [same EXCEPT !.a.m_uiState.wavepacket.x0 =
                   IF @ = Tenths(0) THEN ToFloat(Tenths(10)) ELSE Tenths(0)]
          [] click = "ApplyPotential" ->
               LET r == UpdateConfigRun(e, h, cfg, lib.fOK, lib.bOK, lib.clobber)
                   p == PotentialCreate(cfg.potential.type, cfg.potential.parameters)
               IN  [r |-> IF r.exc = NoExc
                          THEN [r EXCEPT !.e = SetPotentialRun(r.e, p)]
                          ELSE r,
                    a |-> [a EXCEPT !.m_config = [nx |-> cfg.nx, ny |-> cfg.ny]],
                    applied |-> TRUE]
          [] click = "ApplyWavepacket" ->
               [r |-> ResetRun(e, h),
                a |-> [a EXCEPT !.m_config = [nx |-> cfg.nx, ny |-> cfg.ny],
                                !.m_simState = IF delivers /\ e.m_eventBus
                                               THEN "Stopped" ELSE @],
                applied |-> FALSE]
          [] OTHER -> same

Clicks ==
    {"none", "StartPause", "Reset", "PotentialType", "WaveX0", "ApplyPotential",
     "ApplyWavepacket"}

\* what the planner does when the running application calls it: it builds
\* both plans, or fails at the first
FramePlanning ==
    {[fOK |-> ok, bOK |-> ok, clobber |-> FALSE] : ok \in BOOLEAN}

\* the keys a frame finds pressed: at most one
KeySets == {{}, {"Space"}, {"R"}}

\* what a frame finds: the keys pressed, whether the simulation and render
\* intervals have elapsed, the widget clicked, what the planner does if it is
\* called, and whether the bus hands the engine's reset event to the UI.
\* The user does one thing per frame, a key or a click.  Both intervals
\* elapsed is not drawn: a frame that steps renders anyway, and a frame that
\* does not step ignores the simulation interval.
FrameInputs ==
    {in \in [keys : KeySets, elapsed : BOOLEAN, renderDue : BOOLEAN,
             click : Clicks, lib : FramePlanning, delivers : BOOLEAN] :
        /\ in.keys = {} \/ in.click = "none"
        /\ ~(in.elapsed /\ in.renderDue)
        /\ in.click # "ApplyPotential" =>
              in.lib = [fOK |-> TRUE, bOK |-> TRUE, clobber |-> FALSE]
        /\ in.click # "ApplyWavepacket" => ~in.delivers}

\* ApplicationController::processFrame
ProcessFrame(in) ==
    /\ app.at = "loop"
    /\ phase = "alive"
    /\ LET sim == AfterKeys(app.m_simState, in.keys)
           doStep == ShouldStep(sim, in.elapsed)
           s == StepRun(eng, FALSE)
           e1 == IF doStep THEN s.e ELSE eng
           renders == doStep \/ in.renderDue
           density == EngineDensity(e1)
           c == ClickRun(in.click, e1, heap, [app EXCEPT !.m_simState = sim],
                         in.lib, in.delivers)
           restarted == in.click \in {"ApplyPotential", "ApplyWavepacket"}
           frame == [apply |-> IF restarted THEN in.click ELSE "none",
                     reset |-> ("R" \in in.keys \/ in.click = "Reset"),
                     steps |-> IF doStep THEN 1 ELSE 0,
                     simAtStep |-> IF doStep THEN sim ELSE "none",
                     handed |-> IF renders THEN Len(density) ELSE -1,
                     applied |-> c.applied /\ c.r.exc = NoExc,
                     before |-> IF in.click = "ApplyPotential"
                                THEN [t |-> e1.m_currentTime,
                                      buf |-> e1.m_wavefunction.buf,
                                      nx |-> e1.m_nx, ny |-> e1.m_ny,
                                      wp |-> e1.m_wavepacket]
                                ELSE NoBefore]
       IN  /\ doStep => nSteps < MaxFrameSteps
           /\ ~renders => in.click = "none"
           /\ IF doStep /\ s.died
              THEN /\ phase' = "crashed"
                   /\ eng' = NoEngine
                   /\ heap' = EmptyHeap
                   /\ err' = NoExc
                   /\ app' = [NoApp EXCEPT !.at = "exited"]
                   /\ stages' = s.stages
                   /\ notes' = s.notes
                   /\ nSteps' = 0
                   /\ clean' = TRUE
                   /\ initial' = NoContents
                   /\ lastDims' = <<0, 0>>
              ELSE /\ phase' = phase
                   /\ eng' = c.r.e
                   /\ heap' = c.r.h
                   /\ err' = c.r.exc
                   /\ app' = [c.a EXCEPT !.frame = frame]
                   /\ stages' = IF doStep THEN s.stages ELSE << >>
                   /\ notes' = IF doStep THEN s.notes ELSE << >>
                   /\ nSteps' = IF restarted THEN 0
                                ELSE IF doStep THEN nSteps + 1 ELSE nSteps
                   /\ clean' = IF in.click = "ApplyPotential" THEN c.r.exc = NoExc
                               ELSE IF in.click = "ApplyWavepacket" THEN TRUE
                               ELSE clean
                   /\ initial' = IF in.click = "ApplyPotential"
                                 THEN (IF c.r.exc = NoExc
                                       THEN Contents(c.r.e.m_wavefunction)
                                       ELSE NoContents)
                                 ELSE initial
                   /\ lastDims' = IF in.click = "ApplyPotential"
                                  THEN <<c.a.m_config.nx, c.a.m_config.ny>>
                                  ELSE lastDims
    /\ lastCall' = "processFrame"
    /\ tEntry' = 0
    /\ out' = NoDensity
    /\ UNCHANGED <<wf, registered, reconfigs, request, samples>>

\* the loop ends: the components are shut down and then destroyed
AppExit ==
    /\ app.at = "loop"
    /\ phase = "alive"
    /\ LET r == cleanupFFTWPlans(cleanupFFTWPlans(Run(eng, heap)))
       IN  heap' = [r.h EXCEPT !.bufs = @ \ {eng.m_wavefunction.buf}]
    /\ eng' = NoEngine
    /\ phase' = "destroyed"
    /\ app' = [NoApp EXCEPT !.at = "exited"]
    /\ lastCall' = "exit"
    /\ lastDims' = <<0, 0>>
    /\ err' = NoExc
    /\ stages' = << >>
    /\ notes' = << >>
    /\ tEntry' = 0
    /\ nSteps' = 0
    /\ clean' = TRUE
    /\ initial' = NoContents
    /\ out' = NoDensity
    /\ UNCHANGED <<wf, registered, reconfigs, request, samples>>

NextApp ==
    \/ \E thrown \in BOOLEAN : \E lib \in Planning(MainConfig) :
          AppStart(thrown, lib)
    \/ \E in \in FrameInputs : ProcessFrame(in)
    \/ AppExit

SpecApp == Init /\ [][NextApp]_vars

\* ================================================================ claims
IsPrefix(a, b) == Len(a) <= Len(b) /\ a = SubSeq(b, 1, Len(a))

\* the last n entries of a sequence
Tail_n(q, n) == SubSeq(q, Len(q) - n + 1, Len(q))

\* the observers the last step() invoked through the callback slot, in order
CallbackNotes ==
    LET idx == {i \in 1 .. Len(notes) : notes[i].who # "bus"}
        RECURSIVE pick(_)
        pick(i) == IF i > Len(notes) THEN << >>
                   ELSE IF i \in idx THEN <<notes[i].who>> \o pick(i + 1)
                   ELSE pick(i + 1)
    IN  pick(1)

StepReturned == lastCall = "step" /\ phase = "alive"

\* C1: a call of step() performs, in this order and nothing else: half-step
\* potential multiply, forward FFT, kinetic multiply, inverse FFT, division
\* by Nx*Ny, second half-step potential multiply (the same multiplier as the
\* first), t := t + dt, notification.  A call never performs them in another
\* order, and a call that returns has performed all of them: the field has
\* gained exactly these six operators and t has gained dt.
C1_Sequence ==
    <<"halfV", "fft", "kinetic", "ifft", "scale", "halfV", "time",
      "publish", "callback">>

C1_StepOrder ==
    lastCall = "step" =>
      /\ IsPrefix(stages, C1_Sequence)
      /\ phase = "alive" =>
           /\ stages = C1_Sequence
           /\ eng.m_currentTime = tEntry + eng.m_dt
           /\ LET ops == eng.m_wavefunction.ops
              IN  /\ Len(ops) >= 6
                  /\ LET t == Tail_n(ops, 6)
                     IN  /\ t[1][1] = "halfV"
                         /\ t[2] = <<"fft">>
                         /\ t[3] = <<"kinetic", eng.m_kx, eng.m_ky, eng.m_dt>>
                         /\ t[4] = <<"ifft">>
                         /\ t[5] = <<"scale", eng.m_nx * eng.m_ny>>
                         /\ t[6] = t[1]
                         /\ t[1][3] = eng.m_dt

C1_Witness ==
    /\ StepReturned
    /\ nSteps = 2
    /\ eng.m_nx # eng.m_ny
    /\ Len(eng.m_wavefunction.ops) >= 12

\* C2: whoever step() notifies (the event bus, the callback) is notified
\* after both half-potential multiplies, the kinetic stage and the advance
\* of the time counter; the time a notification carries is the engine's
\* time after the step, which is the time at entry plus dt.
C2_NotifiedAfterStep ==
    lastCall = "step" =>
      \A i \in 1 .. Len(notes) :
         /\ IsPrefix(<<"halfV", "fft", "kinetic", "ifft", "scale", "halfV",
                       "time">>, notes[i].done)
         /\ notes[i].carried = eng.m_currentTime
         /\ notes[i].carried = tEntry + eng.m_dt

C2_Witness ==
    /\ StepReturned
    /\ Len(notes) = 2
    /\ eng.m_dt > 0
    /\ notes[1].who = "bus"
    /\ notes[2].who = "O1"

C4_NoEscape ==
    StepReturned => err = NoExc

\* C5: updateConfig is atomic: when it surfaces an error, the grid, the
\* spacings, dt, the wavepacket, the potential, the field, the k-grid and
\* both plans are those the engine had when updateConfig was entered.
Installed(e) ==
    <<e.m_nx, e.m_ny, e.m_dx, e.m_dy, e.m_dt, e.m_wavepacket, e.m_potential,
      e.m_wavefunction, e.m_kx, e.m_ky, e.m_forwardPlan, e.m_backwardPlan>>

C5_AtomicUpdate ==
    [][(reconfigs' = reconfigs + 1 /\ err' # NoExc)
          => Installed(eng') = Installed(eng)]_vars

\* C6: when the constructor or updateConfig returns successfully, the field
\* holds the normalized Gaussian of the stored wavepacket.
C6_GaussianAfterSetup ==
    (lastCall \in {"construct", "updateConfig"} /\ phase = "alive" /\ err = NoExc)
       => IsNormalizedGaussian(eng.m_wavefunction, eng.m_wavepacket)

C8_InvalidGridRejected ==
    (lastCall \in {"construct", "newWavefunction"}
        /\ (lastDims[1] <= 0 \/ lastDims[2] <= 0))
       => /\ err # NoExc
          /\ eng = NoEngine
          /\ wf = NoWavefunction
          /\ heap.plans = {}
          /\ heap.bufs = {}

\* C9: no engine exists whose dt is zero or negative.
C9_InvalidDtRejected ==
    phase = "alive" => eng.m_dt > 0

\* C10: the constructor and reset() leave t = 0, and n calls of step() after
\* them leave t = n * dt; so do n calls of step() after an updateConfig that
\* returned.  (After an updateConfig that failed t is whatever it was.)
C10_TimeIsStepsTimesDt ==
    /\ (lastCall \in {"construct", "reset"} /\ phase = "alive")
          => eng.m_currentTime = 0
    /\ (phase = "alive" /\ clean) => eng.m_currentTime = nSteps * eng.m_dt

C10_Witness ==
    /\ StepReturned
    /\ clean
    /\ nSteps = 2
    /\ eng.m_dt = 1
    /\ eng.m_currentTime = 2

\* C11: the time counter of an engine is never negative, whatever the
\* configuration the constructor or updateConfig accepted and whatever was
\* called since.
C11_TimeNonNegative ==
    phase = "alive" => eng.m_currentTime >= 0

\* C12: reset() changes only the contents of the field and t: both plans, the
\* storage and shape of the field, Nx, Ny, the spacings, dt, the potential,
\* the k-grid, the stored wavepacket, the callback and the heap are the same
\* before and after it.
ResetFrame(e) ==
    <<e.m_forwardPlan, e.m_backwardPlan, e.m_wavefunction.buf,
      e.m_wavefunction.m_nx, e.m_wavefunction.m_ny, e.m_wavefunction.size,
      e.m_nx, e.m_ny, e.m_dx, e.m_dy, e.m_dt, e.m_potential, e.m_kx, e.m_ky,
      e.m_wavepacket, e.m_stepCompletionCallback, e.m_eventBus>>

C12_ResetFrame ==
    [][lastCall' = "reset"
          => /\ ResetFrame(eng') = ResetFrame(eng)
             /\ heap' = heap
             /\ registered' = registered]_vars

\* reset() returned on a reconfigured engine that holds plans and a callback
C12_Witness ==
    /\ lastCall = "reset"
    /\ phase = "alive"
    /\ eng.m_forwardPlan # NullPlan
    /\ eng.m_backwardPlan # NullPlan
    /\ eng.m_wavefunction.buf = 2
    /\ eng.m_stepCompletionCallback = "O2"
    /\ eng.m_potential.type = "FreeSpace"

\* C13: reset() brings back the state the engine was built in: after any
\* calls of step(), reset() leaves t = 0 and a field whose contents are those
\* the constructor (or the updateConfig that returned last) left.
C13_ResetIdempotent ==
    (lastCall = "reset" /\ phase = "alive" /\ initial # NoContents)
       => /\ eng.m_currentTime = 0
          /\ Contents(eng.m_wavefunction) = initial

\* C14: setPotential(p) replaces the potential and nothing else: the field
\* (contents, storage, shape), both plans, the k-grid, Nx, Ny, the spacings,
\* dt, the stored wavepacket, the callback, the heap and t are the same
\* before and after it; in particular t is not set to 0.
PotentialFrame(e) ==
    <<e.m_wavefunction, e.m_forwardPlan, e.m_backwardPlan, e.m_kx, e.m_ky,
      e.m_nx, e.m_ny, e.m_dx, e.m_dy, e.m_dt, e.m_wavepacket, e.m_currentTime,
      e.m_stepCompletionCallback, e.m_eventBus>>

C14_SetPotentialFrame ==
    [][lastCall' = "setPotential"
          => /\ PotentialFrame(eng') = PotentialFrame(eng)
             /\ eng'.m_potential \in Potentials
             /\ heap' = heap
             /\ registered' = registered]_vars

\* the barrier was installed in an engine built in free space, after a step
C14_Witness ==
    /\ lastCall = "setPotential"
    /\ phase = "alive"
    /\ eng.m_wavepacket = WpA
    /\ eng.m_potential.type = "SquareBarrier"
    /\ eng.m_currentTime > 0
    /\ Len(eng.m_wavefunction.ops) > 1

\* C15: when updateConfig(c) returns, c is installed: Nx, Ny, dt and the
\* stored wavepacket are c's, the potential is the one the factory builds
\* from c.potential, the field has the shape (c.nx, c.ny) and allocated
\* storage, the k-grid arrays have the lengths c.nx and c.ny and hold the
\* modes of those lengths, both plans exist and are bound to the field, and
\* the field holds the normalized Gaussian of c.wavepacket at t = 0.
UpdateReturned ==
    lastCall = "updateConfig" /\ phase = "alive" /\ err = NoExc

C15_ConfigInstalled ==
    UpdateReturned =>
      LET c == ReconfigOf(lastDims)
          w == eng.m_wavefunction
      IN  /\ eng.m_nx = c.nx /\ eng.m_ny = c.ny /\ eng.m_dt = c.dt
          /\ eng.m_dx = Spacing(eng.m_lx, c.nx)
          /\ eng.m_dy = Spacing(eng.m_ly, c.ny)
          /\ eng.m_wavepacket = c.wavepacket
          /\ eng.m_potential = PotentialCreate(c.potential.type,
                                               c.potential.parameters)
          /\ w.m_nx = c.nx /\ w.m_ny = c.ny /\ w.size = c.nx * c.ny
          /\ w.buf \in heap.bufs
          /\ eng.m_kx = [i \in 1 .. c.nx |-> KMode(i - 1, c.nx)]
          /\ eng.m_ky = [j \in 1 .. c.ny |-> KMode(j - 1, c.ny)]
          /\ \A p \in {eng.m_forwardPlan, eng.m_backwardPlan} :
                /\ p \in heap.plans
                /\ p.buf = w.buf /\ p.nx = c.nx /\ p.ny = c.ny
          /\ eng.m_forwardPlan.dir = "forward"
          /\ eng.m_backwardPlan.dir = "backward"
          /\ IsNormalizedGaussian(w, c.wavepacket)
          /\ eng.m_currentTime = 0

\* an engine that has a callback was reconfigured to a narrow grid
C15_Witness ==
    /\ UpdateReturned
    /\ lastDims = <<1, MaxDim>>
    /\ eng.m_wavefunction.buf = 2
    /\ eng.m_stepCompletionCallback = "O1"

\* C16: a normalization that finds S <= 0 (or NaN) surfaces an error and
\* leaves the samples as they were: normalize() on such a field does not
\* return normally and does not change the field.
C16_DegenerateNormSurfaces ==
    [][(lastCall' = "normalize" /\ ZeroNorm(wf))
          => (err' # NoExc /\ wf' = wf)]_vars

\* C17: the vector the engine's getProbabilityDensity() returns is the one
\* Wavefunction::getProbabilityDensity() returns for the engine's field:
\* Nx*Ny entries, entry i*Ny + j holding |psi(i, j)|^2.
C17_DensityRowMajor ==
    (lastCall = "getProbabilityDensity" /\ err = NoExc)
       => out = WfGetProbabilityDensity(eng.m_wavefunction)

\* the constructor or updateConfig has just returned an engine
KGridBuilt ==
    phase = "alive" /\ lastCall \in {"construct", "updateConfig"} /\ err = NoExc

\* the part of the k-grid property that does not depend on the parity of N:
\* N entries, k[0] = 0, no duplicates
KAxisDistinct(k, N) ==
    /\ N >= 1
    /\ Len(k) = N
    /\ k[1] = 0
    /\ \A a, b \in 1 .. N : k[a] = k[b] => a = b

Points == (-2 .. 2) \X (-2 .. 2)

Arity(type) == Len(PotentialDefaults(type))

C21_RowMajorAccess ==
    phase = "field" =>
      LET Nx == lastDims[1]
          Ny == lastDims[2]
          I == 0 .. Nx - 1
          J == 0 .. Ny - 1
          w == samples.write
      IN  /\ wf.m_nx = Nx /\ wf.m_ny = Ny
          /\ Len(samples.m_data) = Nx * Ny
          /\ w.via = "none" => \A k \in 1 .. Nx * Ny : samples.m_data[k] = 0
          /\ \A i \in I, j \in J :
                /\ SampleIndex(wf, i, j) = i * Ny + j
                /\ i * Ny + j \in 0 .. Nx * Ny - 1
                /\ ReadThroughOperator(i, j) = ReadThroughData(i * Ny + j)
          /\ \A i1, i2 \in I, j1, j2 \in J :
                i1 * Ny + j1 = i2 * Ny + j2 => (i1 = i2 /\ j1 = j2)
          /\ (Nx > 0 /\ Ny > 0) =>
                \A k \in 0 .. Nx * Ny - 1 : \E i \in I, j \in J : i * Ny + j = k
          /\ w.via = "operator()" =>
                ReadThroughData(w.at[1] * Ny + w.at[2]) = w.v
          /\ w.via = "data()" =>
                \A i \in I, j \in J :
                   i * Ny + j = w.at[1] => ReadThroughOperator(i, j) = w.v

\* on a 2 x 2 field, a write to data()[2] is read back as w(1, 0) while
\* w(0, 1) still holds what was written to it before
C21_Witness ==
    /\ phase = "field"
    /\ lastDims = <<2, 2>>
    /\ samples.write = [via |-> "data()", at |-> <<2>>, v |-> 2]
    /\ ReadThroughOperator(1, 0) = 2
    /\ ReadThroughOperator(0, 1) = 1

\* how many of the operators applied to a field since it was last initialized
\* are of the given kind
OpCount(ops, name) == Cardinality({k \in 1 .. Len(ops) : ops[k][1] = name})

\* how many times the last call of step() executed the given statement
StageCount(name) == Cardinality({k \in 1 .. Len(stages) : stages[k] = name})

\* C22: a call of step() that runs to its end executes one forward transform,
\* one inverse transform, one division by Nx*Ny, placed right after the
\* inverse transform, and two half-potential multiplies; the field of an
\* engine that has made n steps since it was last initialized has undergone
\* n, n, n and 2n of them, whatever other operations came in between.
C22_TransformsBalanced ==
    /\ (lastCall = "step" /\ phase = "alive") =>
          /\ StageCount("fft") = 1
          /\ StageCount("ifft") = 1
          /\ StageCount("scale") = 1
          /\ StageCount("halfV") = 2
    /\ (phase = "alive" /\ clean) =>
          LET ops == eng.m_wavefunction.ops
          IN  /\ OpCount(ops, "fft") = nSteps
              /\ OpCount(ops, "ifft") = nSteps
              /\ OpCount(ops, "scale") = nSteps
              /\ OpCount(ops, "halfV") = 2 * nSteps
              /\ \A k \in 1 .. Len(ops) :
                    ops[k][1] = "scale" => (k > 1 /\ ops[k - 1][1] = "ifft")

\* two steps made, with a change of potential after them
C22_Witness ==
    /\ phase = "alive"
    /\ clean
    /\ nSteps = 2
    /\ lastCall = "setPotential"
    /\ OpCount(eng.m_wavefunction.ops, "halfV") = 4
    /\ OpCount(eng.m_wavefunction.ops, "scale") = 2

\* C25: step() is never called on an engine that lacks a plan, so that
\* fftw_execute never receives a null handle: wherever step() can be called,
\* after shutdown() and after an updateConfig that threw included, both plans
\* exist.
C25_PlansWhereverSteppable ==
    /\ phase # "crashed"
    /\ phase = "alive" =>
          (eng.m_forwardPlan # NullPlan /\ eng.m_backwardPlan # NullPlan)

\* C29: whatever sequence of shutdown(), updateConfig() and the destructor
\* runs, fftw_destroy_plan is never handed a plan that was destroyed before.
C29_NoDoubleDestroy == heap.twice = FALSE

\* an engine that was reconfigured and then destroyed: its plans were
\* destroyed by updateConfig and by the destructor, and none is left
C29_Witness ==
    /\ phase = "destroyed"
    /\ lastCall = "destroy"
    /\ reconfigs = 1
    /\ heap.plans = {}
    /\ heap.twice = FALSE

\* C30: when the engine is gone, by its destructor or because its constructor
\* threw, no FFT plan is left allocated.
C30_NoPlanLeak ==
    phase \in {"failed", "destroyed"} => heap.plans = {}

\* C23: after 'Apply Wavepacket Changes' the engine's stored wavepacket is the
\* UI state's six values, its wavefunction is the Gaussian built from them, and
\* its time is 0.
C23_ApplyWavepacketTakesUiValues ==
    app.frame.apply = "ApplyWavepacket" =>
        /\ eng.m_wavepacket = app.m_uiState.wavepacket
        /\ IsNormalizedGaussian(eng.m_wavefunction, app.m_uiState.wavepacket)
        /\ eng.m_currentTime = 0

\* C24: the engine's time advances only by one step of a frame that called
\* step() with the UI state Running; a frame calls step() at most once.
C24_StepOnlyWhenRunning ==
    [][eng'.m_currentTime > eng.m_currentTime =>
          /\ eng'.m_currentTime = eng.m_currentTime + eng.m_dt
          /\ app'.frame.steps = 1
          /\ app'.frame.simAtStep = "Running"]_vars

C24_Witness ==
    /\ app.at = "loop"
    /\ app.frame.steps = 1
    /\ app.frame.simAtStep = "Running"
    /\ eng.m_currentTime = eng.m_dt

\* C26: an updateConfig that returns normally leaves time 0 and a newly
\* allocated wavefunction holding the normalized Gaussian of the stored
\* wavepacket, also when the grid and the wavepacket are the ones the engine
\* already had.
C26_UpdateConfigDiscardsState ==
    (app.frame.apply = "ApplyPotential" /\ app.frame.applied) =>
        /\ eng.m_currentTime = 0
        /\ eng.m_wavefunction.buf # app.frame.before.buf
        /\ IsNormalizedGaussian(eng.m_wavefunction, eng.m_wavepacket)

C26_Witness ==
    /\ app.frame.apply = "ApplyPotential"
    /\ app.frame.applied
    /\ app.frame.before.t > 0
    /\ app.frame.before.nx = eng.m_nx
    /\ app.frame.before.ny = eng.m_ny
    /\ app.frame.before.wp = eng.m_wavepacket
    /\ eng.m_currentTime = 0

\* C27: after a frame in which Reset was triggered (the button or the R key)
\* the engine's time is 0 and its wavefunction is the initial Gaussian.
C27_UiResetResetsEngine ==
    app.frame.reset =>
        /\ eng.m_currentTime = 0
        /\ IsNormalizedGaussian(eng.m_wavefunction, eng.m_wavepacket)

\* C28: the vector handed to VisualizationEngine::render has width * height
\* entries in every frame that renders.
C28_RenderGetsWidthTimesHeight ==
    app.frame.handed # -1 => app.frame.handed = app.vis[1] * app.vis[2]

====
